---- MODULE Spec2Model ----
(***************************************************************************)
(* State-machine model of lib/SIL/Instruction.cpp: the parent back-pointer *)
(* maintained by ilist_traits<Instruction>, removeFromParent and           *)
(* eraseFromParent, the tail-allocated instructions (apply, closure,       *)
(* tuple, specialize), and the terminators with their successor slots.     *)
(***************************************************************************)
EXTENDS Integers, Sequences, FiniteSets, TLC

\* ------------------------------------------------------------ bounds
MaxInsts == 3
NumBlocks == 2
MaxArgs == 2
MaxAllocs == 2

\* ------------------------------------------------------------ constants
NullBB == 0
NullInst == NullBB
HeaderCells == 1

Insts == 1..MaxInsts
Blocks == 1..NumBlocks
Values == {"a", "b"}
Locs == {"loc"}

TermKinds == {"UnreachableInst", "ReturnInst", "BranchInst", "CondBranchInst"}
TailKinds == {"ApplyInst", "ClosureInst", "TupleInst", "SpecializeInst"}
Kinds == TermKinds \cup TailKinds \cup {"LoadInst"}

VARIABLES
  life,       \* per instruction: "unborn", "live" or "destroyed"
  fields,     \* per instruction: the fixed header fields set by its constructor
  ParentBB,   \* per instruction: Instruction::ParentBB
  InstList,   \* per block: BasicBlock's iplist<Instruction>, in order
  mem,        \* the function's arena, one cell per sizeof(Value) unit
  top,        \* the arena's bump pointer (next free cell)
  addr,       \* per instruction: the cell its record starts at (0: not in the arena)
  given,      \* per instruction: the element list its creator was handed
  DestBBs,    \* per instruction: its successor slots
  PredList,   \* per block: the successor slots registered on it
  last,       \* the call that was made last, with its arguments and result
  err         \* "none"; after a violated precondition "assert" (the assertion
              \* failed and ended the process: a build with assertions) or "ub"
              \* (the assertion is compiled out: an NDEBUG build)

vars == <<life, fields, ParentBB, InstList, mem, top, addr, given,
          DestBBs, PredList, last, err>>

NoFields == [kind |-> "none", Loc |-> "none", Operand |-> "none", NumArgs |-> 0]
NoSlot == [ContainingInst |-> NullInst, BB |-> NullBB]
NoCall == [op |-> "none", I |-> NullInst, B |-> NullBB, src |-> NullBB,
           run |-> <<>>, where |-> NullInst, relinked |-> FALSE, writes |-> 0,
           res |-> <<>>]

Call(op, I, B) == [NoCall EXCEPT !.op = op, !.I = I, !.B = B]

\* ------------------------------------------------------------ helpers
Range(s) == {s[k] : k \in 1..Len(s)}

RECURSIVE SelectOut(_, _)
\* s without the members of the set X, order kept
SelectOut(s, X) ==
  IF s = <<>> THEN <<>>
  ELSE IF Head(s) \in X THEN SelectOut(Tail(s), X)
       ELSE <<Head(s)>> \o SelectOut(Tail(s), X)

IndexOf(s, x) == CHOOSE k \in 1..Len(s) : s[k] = x

\* the node an iterator at position p of list s points to (the end: NullInst)
NodeAt(s, p) == IF p \in 1..Len(s) THEN s[p] ELSE NullInst

isaTermInst(I) == fields[I].kind \in TermKinds

\* ------------------------------------------------------------ iplist<Instruction>
\* iplist::insert(where, New): New is linked before position p
ilist_insert(s, p, x) == SubSeq(s, 1, p - 1) \o <<x>> \o SubSeq(s, p, Len(s))

\* iplist::remove(IT): the node is unlinked, the others keep their order
ilist_remove(s, x) == SelectOut(s, {x})

\* iplist::transfer: the run is unlinked from its list ...
ilist_unlink_run(s, run) == SelectOut(s, Range(run))

\* ... and relinked before the node `where` (NullInst: at the end)
ilist_link_run(s, where, run) ==
  IF where = NullInst THEN s \o run
  ELSE LET p == IndexOf(s, where)
       IN  SubSeq(s, 1, p - 1) \o run \o SubSeq(s, p, Len(s))

\* ------------------------------------------------------------ ilist_traits<Instruction>
\* The trait object is embedded in its block: list L is block L's list.
getContainingBlock(L) == L

\* mutant: no check that the instruction is unlinked
addNodeToList_noAssert(P, I) == TRUE

\* assert(I->ParentBB == 0 && "Already in a list!")
addNodeToList_assert(P, I) == P[I] = NullBB

\* mutant: the store of the parent is missing
addNodeToList_noStore(P, I, L) == P

\* I->ParentBB = getContainingBlock()
addNodeToList(P, I, L) == [P EXCEPT ![I] = getContainingBlock(L)]

\* assert(I->ParentBB && "Not in a list!")
removeNodeFromList_assert(P, I) == P[I] # NullBB

\* mutant: the parent is not cleared
removeNodeFromList_noClear(P, I) == P

\* I->ParentBB = 0
removeNodeFromList(P, I) == [P EXCEPT ![I] = NullBB]

RECURSIVE transferLoop(_, _, _, _)
\* for (; first != last; ++first) first->ParentBB = ThisParent;
\* st.P is the parent map, st.writes counts the stores the loop has made
transferLoop(st, nodes, first, ThisParent) ==
  IF first > Len(nodes) THEN st
  ELSE transferLoop([P |-> [st.P EXCEPT ![nodes[first]] = ThisParent],
                     writes |-> st.writes + 1],
                    nodes, first + 1, ThisParent)

\* mutant: the moved instructions get the block they came from
transferNodesFromList_fromL2(P, L, L2, nodes) ==
  LET ThisParent == getContainingBlock(L)
  IN  IF ThisParent = getContainingBlock(L2)
      THEN [P |-> P, writes |-> 0]
      ELSE transferLoop([P |-> P, writes |-> 0], nodes, 1, getContainingBlock(L2))

\* mutant: no early return for a transfer within one block
transferNodesFromList_noShortcut(P, L, L2, nodes) ==
  transferLoop([P |-> P, writes |-> 0], nodes, 1, getContainingBlock(L))

\* transferNodesFromList(L2, first, last) on list L; nodes is the run [first, last)
transferNodesFromList(P, L, L2, nodes) ==
  LET ThisParent == getContainingBlock(L)
  IN  IF ThisParent = getContainingBlock(L2)
      THEN [P |-> P, writes |-> 0]
      ELSE transferLoop([P |-> P, writes |-> 0], nodes, 1, ThisParent)

\* ------------------------------------------------------------ the function's arena
\* Function::allocate(Size, Align): a bump allocation; records are never moved
allocate(t, size) == [Buffer |-> t, top |-> t + size]

\* memcpy(dst, src, n * sz): element k of src lands in the sz cells from
\* dst + (k - 1) * sz on
memcpy(m, dst, src, n, sz) ==
  [c \in DOMAIN m |->
     IF c \in dst..(dst + n * sz - 1) THEN src[((c - dst) \div sz) + 1] ELSE m[c]]

\* placement new of the fixed header at Buffer
placeHeader(m, Buffer) ==
  [c \in DOMAIN m |-> IF c \in Buffer..(Buffer + HeaderCells - 1) THEN "hdr" ELSE m[c]]

\* sizeof(Value) and sizeof(Substitution), in cells
sizeofValue == 1
sizeofSubstitution == 2

\* enough cells for MaxAllocs records of the largest size
ArenaCells == MaxAllocs * (HeaderCells + MaxArgs * sizeofSubstitution)

elemSize(kind) == IF kind = "SpecializeInst" THEN sizeofSubstitution ELSE sizeofValue

\* mutant: every trailing array is sized in sizeof(Value)
allocSize_valueSized(kind, Args) == HeaderCells + Len(Args) * sizeofValue

\* sizeof(DERIVED) + Args.size() * sizeof(Value)
allocSize(kind, Args) == HeaderCells + Len(Args) * elemSize(kind)

\* NumArgs(Args.size()) / NumSubstitutions(Substitutions.size())
storedCount(Args) == Len(Args)

\* the constructor's memcpy into getArgsStorage(), the cells right after the header
copyTrailing(m, Buffer, kind, Args) ==
  memcpy(m, Buffer + HeaderCells, Args, Len(Args), elemSize(kind))

\* element i of the trailing array of the record at a, read back from the arena
trailingElem(m, a, kind, i) ==
  LET sz == elemSize(kind)
      b  == a + HeaderCells + (i - 1) * sz
  IN  IF \A c \in b..(b + sz - 1) : m[c] = m[b] THEN m[b] ELSE "torn"

\* getArgs() / getElements() / getSubstitutions(): count from the header
getArgs(I) ==
  [i \in 1..fields[I].NumArgs |-> trailingElem(mem, addr[I], fields[I].kind, i)]

\* ------------------------------------------------------------ SILSuccessor
\* SILSuccessor::init(Inst): the slot k of I learns its owning instruction
SILSuccessor_init(S, I, k, Inst) ==
  [S EXCEPT !.D[I][k].ContainingInst = Inst]

\* SILSuccessor::operator=(BB): the slot leaves its old target's list and is
\* registered, with the owner it knows, on BB
SILSuccessor_assign(S, I, k, BB) ==
  LET old == S.D[I][k].BB
      P1  == IF old = NullBB THEN S.Pr
             ELSE [S.Pr EXCEPT ![old] = SelectSeq(@, LAMBDA e : e.slot # <<I, k>>)]
      P2  == IF BB = NullBB THEN P1
             ELSE [P1 EXCEPT ![BB] =
                     <<[slot |-> <<I, k>>, user |-> S.D[I][k].ContainingInst]>> \o @]
  IN  [D |-> [S.D EXCEPT ![I][k].BB = BB], Pr |-> P2]

\* BranchInst::BranchInst: DestBB(this, DestBB)
BranchInst_ctor(S, I, DestBB) ==
  SILSuccessor_assign(
    SILSuccessor_init([S EXCEPT !.D[I] = <<NoSlot>>], I, 1, I), I, 1, DestBB)

\* mutant: the two targets are stored in the wrong slots
CondBranchInst_ctor_swapped(S, I, TrueBB, FalseBB) ==
  LET S0 == [S EXCEPT !.D[I] = <<NoSlot, NoSlot>>]
      S1 == SILSuccessor_init(S0, I, 1, I)
      S2 == SILSuccessor_init(S1, I, 2, I)
      S3 == SILSuccessor_assign(S2, I, 1, FalseBB)
  IN  SILSuccessor_assign(S3, I, 2, TrueBB)

\* mutant: the second slot is given its target before it is initialized
CondBranchInst_ctor_lateInit(S, I, TrueBB, FalseBB) ==
  LET S0 == [S EXCEPT !.D[I] = <<NoSlot, NoSlot>>]
      S1 == SILSuccessor_init(S0, I, 1, I)
      S2 == SILSuccessor_assign(S1, I, 1, TrueBB)
      S3 == SILSuccessor_assign(S2, I, 2, FalseBB)
  IN  SILSuccessor_init(S3, I, 2, I)

\* CondBranchInst::CondBranchInst: DestBBs[0].init(this); DestBBs[1].init(this);
\* DestBBs[0] = TrueBB; DestBBs[1] = FalseBB;
CondBranchInst_ctor(S, I, TrueBB, FalseBB) ==
  LET S0 == [S EXCEPT !.D[I] = <<NoSlot, NoSlot>>]
      S1 == SILSuccessor_init(S0, I, 1, I)
      S2 == SILSuccessor_init(S1, I, 2, I)
      S3 == SILSuccessor_assign(S2, I, 1, TrueBB)
  IN  SILSuccessor_assign(S3, I, 2, FalseBB)

UnreachableInst_getSuccessors(I) == <<>>
ReturnInst_getSuccessors(I) == <<>>
BranchInst_getSuccessors(I) == <<DestBBs[I][1]>>
CondBranchInst_getSuccessors(I) == <<DestBBs[I][1], DestBBs[I][2]>>

\* TermInst::getSuccessors, past its assertion: the dyn_cast chain
getSuccessors(I) ==
  IF fields[I].kind = "UnreachableInst" THEN UnreachableInst_getSuccessors(I)
  ELSE IF fields[I].kind = "ReturnInst" THEN ReturnInst_getSuccessors(I)
  ELSE IF fields[I].kind = "CondBranchInst" THEN CondBranchInst_getSuccessors(I)
  ELSE BranchInst_getSuccessors(I)

\* assert(isa<TermInst>(this) && "Only TermInst's are allowed")
getSuccessors_assert(I) == isaTermInst(I)

\* the target blocks of a successor list, in order
Targets(succs) == [k \in 1..Len(succs) |-> succs[k].BB]

\* what reading a non-terminator as a BranchInst can return
GarbageSuccessors == {<<>>} \cup {<<b>> : b \in Blocks \cup {NullBB}}

\* ------------------------------------------------------------ initial state
Init ==
  /\ life = [I \in Insts |-> "unborn"]
  /\ fields = [I \in Insts |-> NoFields]
  /\ ParentBB = [I \in Insts |-> NullBB]
  /\ InstList = [B \in Blocks |-> <<>>]
  /\ mem = [c \in 1..ArenaCells |-> "free"]
  /\ top = 1
  /\ addr = [I \in Insts |-> 0]
  /\ given = [I \in Insts |-> <<>>]
  /\ DestBBs = [I \in Insts |-> <<>>]
  /\ PredList = [B \in Blocks |-> <<>>]
  /\ last = NoCall
  /\ err = "none"

\* the next instruction to be constructed
Fresh(I) == life[I] = "unborn" /\ \A J \in Insts : J < I => life[J] # "unborn"

Born == {I \in Insts : life[I] # "unborn"}
Live == {I \in Insts : life[I] = "live"}

\* ------------------------------------------------------------ constructors
\* Instruction(kind, Loc, Ty) with the subclass's operand: the header fields
Header(kind, Loc, Operand, n) ==
  [kind |-> kind, Loc |-> Loc, Operand |-> Operand, NumArgs |-> n]

\* LoadInst::LoadInst(Loc, LValue)
NewLoadInst(Loc, LValue) ==
  \E I \in Insts :
    /\ err = "none" /\ Fresh(I)
    /\ life' = [life EXCEPT ![I] = "live"]
    /\ fields' = [fields EXCEPT ![I] = Header("LoadInst", Loc, LValue, 0)]
    /\ last' = Call("LoadInst", I, NullBB)
    /\ UNCHANGED <<ParentBB, InstList, mem, top, addr, given,
                   DestBBs, PredList, err>>

\* ReturnInst::ReturnInst(Loc, ReturnValue)
NewReturnInst(Loc, ReturnValue) ==
  \E I \in Insts :
    /\ err = "none" /\ Fresh(I)
    /\ life' = [life EXCEPT ![I] = "live"]
    /\ fields' = [fields EXCEPT ![I] = Header("ReturnInst", Loc, ReturnValue, 0)]
    /\ last' = Call("ReturnInst", I, NullBB)
    /\ UNCHANGED <<ParentBB, InstList, mem, top, addr, given,
                   DestBBs, PredList, err>>

\* UnreachableInst::UnreachableInst(F): SILLocation() is the synthetic location
NewUnreachableInst ==
  \E I \in Insts :
    /\ err = "none" /\ Fresh(I)
    /\ life' = [life EXCEPT ![I] = "live"]
    /\ fields' = [fields EXCEPT ![I] = Header("UnreachableInst", "synthetic", "none", 0)]
    /\ last' = Call("UnreachableInst", I, NullBB)
    /\ UNCHANGED <<ParentBB, InstList, mem, top, addr, given,
                   DestBBs, PredList, err>>

\* BranchInst::BranchInst(DestBB, F)
NewBranchInst(DestBB) ==
  \E I \in Insts :
    /\ err = "none" /\ Fresh(I)
    /\ life' = [life EXCEPT ![I] = "live"]
    /\ fields' = [fields EXCEPT ![I] = Header("BranchInst", "synthetic", "none", 0)]
    /\ LET S == BranchInst_ctor([D |-> DestBBs, Pr |-> PredList], I, DestBB)
       IN  DestBBs' = S.D /\ PredList' = S.Pr
    /\ given' = [given EXCEPT ![I] = <<DestBB>>]
    /\ last' = Call("BranchInst", I, NullBB)
    /\ UNCHANGED <<ParentBB, InstList, mem, top, addr, err>>

\* CondBranchInst::CondBranchInst(Loc, Condition, TrueBB, FalseBB)
NewCondBranchInst(Loc, Condition, TrueBB, FalseBB) ==
  \E I \in Insts :
    /\ err = "none" /\ Fresh(I)
    /\ life' = [life EXCEPT ![I] = "live"]
    /\ fields' = [fields EXCEPT ![I] = Header("CondBranchInst", Loc, Condition, 0)]
    /\ LET S == CondBranchInst_ctor([D |-> DestBBs, Pr |-> PredList], I, TrueBB, FalseBB)
       IN  DestBBs' = S.D /\ PredList' = S.Pr
    /\ given' = [given EXCEPT ![I] = <<TrueBB, FalseBB>>]
    /\ last' = Call("CondBranchInst", I, NullBB)
    /\ UNCHANGED <<ParentBB, InstList, mem, top, addr, err>>

\* FunctionInst::create<DERIVED>, SpecializeInst::create, TupleInst::createImpl:
\* allocate header + trailing array from the arena, construct in place
CreateTail(kind, Loc, Operand, Args) ==
  \E I \in Insts :
    /\ err = "none" /\ Fresh(I)
    /\ Cardinality({J \in Insts : addr[J] # 0}) < MaxAllocs
    /\ LET A == allocate(top, allocSize(kind, Args))
       IN  /\ top' = A.top
           /\ addr' = [addr EXCEPT ![I] = A.Buffer]
           /\ mem' = copyTrailing(placeHeader(mem, A.Buffer), A.Buffer, kind, Args)
    /\ life' = [life EXCEPT ![I] = "live"]
    /\ fields' = [fields EXCEPT ![I] = Header(kind, Loc, Operand, storedCount(Args))]
    /\ given' = [given EXCEPT ![I] = Args]
    /\ last' = Call(kind, I, NullBB)
    /\ UNCHANGED <<ParentBB, InstList, DestBBs, PredList, err>>

\* ApplyInst::create(Loc, Callee, Args, F)
NewApplyInst(Loc, Callee, Args) == CreateTail("ApplyInst", Loc, Callee, Args)

\* ClosureInst::create(Loc, Callee, Args, F)
NewClosureInst(Loc, Callee, Args) == CreateTail("ClosureInst", Loc, Callee, Args)

\* TupleInst::createImpl(Loc, Ty, Elements, F)
NewTupleInst(Loc, Elements) == CreateTail("TupleInst", Loc, "none", Elements)

\* SpecializeInst::create(Loc, Operand, Substitutions, DestTy, F)
NewSpecializeInst(Loc, Operand, Substitutions) ==
  CreateTail("SpecializeInst", Loc, Operand, Substitutions)

\* ------------------------------------------------------------ list operations
\* B.getInsts().insert(where, I), where at position p of B's list:
\* iplist::insert links I, then notifies addNodeToList(I)
Insert(I, B, p) ==
  /\ err = "none" /\ I \in Live
  /\ p \in 1..(Len(InstList[B]) + 1)
  /\ InstList' = [InstList EXCEPT ![B] = ilist_insert(@, p, I)]
  /\ IF addNodeToList_assert(ParentBB, I)
     THEN /\ ParentBB' = addNodeToList(ParentBB, I, B)
          /\ err' = "none"
     ELSE \/ /\ ParentBB' = ParentBB
             /\ err' = "assert"
          \/ /\ ParentBB' = addNodeToList(ParentBB, I, B)
             /\ err' = "ub"
  /\ last' = [Call("insert", I, B) EXCEPT !.where = NodeAt(InstList[B], p)]
  /\ UNCHANGED <<life, fields, mem, top, addr, given, DestBBs, PredList>>

\* Instruction::getParent()
getParent(I) == ParentBB[I]

\* the unlinking both removeFromParent and eraseFromParent start with, on the
\* list of getParent(): iplist::remove unlinks I, then notifies removeNodeFromList(I)
Unlink(I) ==
  /\ InstList' = [InstList EXCEPT ![getParent(I)] = ilist_remove(@, I)]
  /\ ParentBB' = removeNodeFromList(ParentBB, I)

\* a call on an instruction that is in no list: getParent() is null
UnlinkUnlinked ==
  /\ err' \in {"assert", "ub"}
  /\ UNCHANGED <<InstList, ParentBB, life>>

\* ilist_traits<Instruction>::deleteNode(I)
deleteNode(I) == life' = [life EXCEPT ![I] = "destroyed"]

\* mutant: removeFromParent also deletes the instruction
removeFromParent_deletes(I) ==
  /\ Unlink(I)
  /\ deleteNode(I)

\* Instruction::removeFromParent(): getParent()->getInsts().remove(this)
removeFromParent(I) ==
  /\ Unlink(I)
  /\ UNCHANGED life

\* Instruction::eraseFromParent(): getParent()->getInsts().erase(this)
eraseFromParent(I) ==
  /\ Unlink(I)
  /\ deleteNode(I)

RemoveFromParent(I) ==
  /\ err = "none" /\ I \in Live
  /\ IF removeNodeFromList_assert(ParentBB, I)
     THEN removeFromParent(I) /\ err' = "none"
     ELSE UnlinkUnlinked
  /\ last' = Call("removeFromParent", I, getParent(I))
  /\ UNCHANGED <<fields, mem, top, addr, given, DestBBs, PredList>>

EraseFromParent(I) ==
  /\ err = "none" /\ I \in Live
  /\ IF removeNodeFromList_assert(ParentBB, I)
     THEN eraseFromParent(I) /\ err' = "none"
     ELSE UnlinkUnlinked
  /\ last' = Call("eraseFromParent", I, getParent(I))
  /\ UNCHANGED <<fields, mem, top, addr, given, DestBBs, PredList>>

\* dst.getInsts().splice(where, src.getInsts(), first, last): where at position
\* p of dst's list, [first, last) the positions f .. l-1 of src's list.
\* iplist::splice: if (first != last) transfer(...); iplist::transfer:
\* if (position != last) { relink; transferNodesFromList(L2, first, position); }
Splice(dst, p, src, f, l) ==
  /\ err = "none"
  /\ f \in 1..(Len(InstList[src]) + 1) /\ l \in f..(Len(InstList[src]) + 1)
  /\ p \in 1..(Len(InstList[dst]) + 1)
  /\ src = dst => (p < f \/ p >= l)
  /\ LET run   == SubSeq(InstList[src], f, l - 1)
         where == NodeAt(InstList[dst], p)
         moves == f # l /\ (src # dst \/ p # l)
         T     == IF moves THEN transferNodesFromList(ParentBB, dst, src, run)
                  ELSE [P |-> ParentBB, writes |-> 0]
     IN  /\ InstList' =
              IF moves
              THEN LET L1 == [InstList EXCEPT ![src] = ilist_unlink_run(@, run)]
                   IN  [L1 EXCEPT ![dst] = ilist_link_run(@, where, run)]
              ELSE InstList
         /\ ParentBB' = T.P
         /\ last' = [Call("splice", NullInst, dst) EXCEPT
                       !.src = src, !.run = run, !.where = where,
                       !.relinked = moves, !.writes = T.writes]
  /\ UNCHANGED <<life, fields, mem, top, addr, given, DestBBs, PredList, err>>

\* TermInst::getSuccessors() called on I
GetSuccessors(I) ==
  /\ err = "none" /\ I \in Live
  /\ IF getSuccessors_assert(I)
     THEN /\ last' = [Call("getSuccessors", I, NullBB) EXCEPT
                        !.res = Targets(getSuccessors(I))]
          /\ err' = "none"
     ELSE \/ /\ last' = Call("getSuccessors", I, NullBB)
             /\ err' = "assert"
          \/ /\ \E g \in GarbageSuccessors :
                  last' = [Call("getSuccessors", I, NullBB) EXCEPT !.res = g]
             /\ err' = "ub"
  /\ UNCHANGED <<life, fields, ParentBB, InstList, mem, top, addr, given,
                 DestBBs, PredList>>

\* ------------------------------------------------------------ specifications
ArgLists == UNION {[1..n -> Values] : n \in 0..MaxArgs}

\* building and rewriting blocks
NextList ==
  \/ \E v \in {"a"} : NewLoadInst("loc", v)
  \/ \E I \in Insts, B \in Blocks :
       \E p \in 1..(Len(InstList[B]) + 1) : Insert(I, B, p)
  \/ \E I \in Insts : RemoveFromParent(I)
  \/ \E I \in Insts : EraseFromParent(I)
  \/ \E dst \in Blocks, src \in Blocks :
       \E p \in 1..(Len(InstList[dst]) + 1), f \in 1..(Len(InstList[src]) + 1) :
         \E l \in f..(Len(InstList[src]) + 1) : Splice(dst, p, src, f, l)

Spec == Init /\ [][NextList]_vars

\* filling blocks with terminators and other instructions, and asking any
\* of them for its successors
NextTerm ==
  \/ \E v \in {"a"} : NewLoadInst("loc", v)
  \/ \E v \in {"a"} : NewReturnInst("loc", v)
  \/ \E I \in Insts, B \in Blocks :
       \E p \in 1..(Len(InstList[B]) + 1) : Insert(I, B, p)
  \/ \E I \in Insts : RemoveFromParent(I)
  \/ \E I \in Insts : GetSuccessors(I)

SpecTerm == Init /\ [][NextTerm]_vars

\* creating tail-allocated instructions in the function's arena
NextArena ==
  \/ \E A \in ArgLists : NewApplyInst("loc", "a", A)
  \/ \E A \in ArgLists : NewClosureInst("loc", "a", A)
  \/ \E A \in ArgLists : NewTupleInst("loc", A)
  \/ \E A \in ArgLists : NewSpecializeInst("loc", "a", A)

SpecArena == Init /\ [][NextArena]_vars

\* creating terminators and asking for their successors
NextCFG ==
  \/ NewUnreachableInst
  \/ \E v \in {"a"} : NewReturnInst("loc", v)
  \/ \E B \in Blocks : NewBranchInst(B)
  \/ \E T \in Blocks, F \in Blocks : NewCondBranchInst("loc", "a", T, F)
  \/ \E I \in Insts : GetSuccessors(I)

SpecCFG == Init /\ [][NextCFG]_vars

\* ------------------------------------------------------------ properties
\* how often I occurs in the instruction lists of all blocks together
RECURSIVE OccIn(_, _)
OccIn(I, Bs) ==
  IF Bs = {} THEN 0
  ELSE LET B == CHOOSE b \in Bs : TRUE
       IN  Cardinality({k \in 1..Len(InstList[B]) : InstList[B][k] = I})
             + OccIn(I, Bs \ {B})

LinkedIn(Ls, I) == \E B \in Blocks : I \in Range(Ls[B])

Linked(I) == LinkedIn(InstList, I)

\* C1: right after an instruction is inserted into block B its parent is B;
\* right after removeFromParent() its parent is null.
C1_ParentAfterLinkUnlink ==
  /\ (last.op = "insert" /\ err = "none") => ParentBB[last.I] = last.B
  /\ (last.op = "removeFromParent" /\ err = "none") => ParentBB[last.I] = NullBB

\* an instruction was removed from a block that still holds another one
C1_Witness ==
  /\ last.op = "removeFromParent" /\ err = "none"
  /\ InstList[last.B] # <<>>
  /\ \E J \in Insts : ParentBB[J] # NullBB /\ ParentBB[J] # last.B

\* C2: as long as no precondition was violated, every instruction is in at most
\* one block's list, at most once; its parent is non-null exactly if it is in
\* a list, and is then the block of that list.
C2_OneParent ==
  err = "none" =>
    \A I \in Insts :
      /\ OccIn(I, Blocks) <= 1
      /\ (ParentBB[I] # NullBB) <=> Linked(I)
      /\ \A B \in Blocks : I \in Range(InstList[B]) => ParentBB[I] = B

\* after an erase, a run was spliced into another block that held an instruction
C2_Witness ==
  /\ err = "none" /\ last.op = "splice" /\ last.src # last.B /\ last.run # <<>>
  /\ Len(InstList[last.B]) > Len(last.run)
  /\ \E I \in Insts : life[I] = "destroyed"

\* C3: after a splice of a run from block B1 into another block B2, every moved
\* instruction has parent B2, every instruction left in B1 has parent B1 and
\* every instruction that was in B2 already has parent B2.
C3_CrossBlockSplice ==
  (last.op = "splice" /\ last.src # last.B /\ err = "none") =>
    /\ \A I \in Range(last.run) : ParentBB[I] = last.B
    /\ \A I \in Range(InstList[last.src]) : ParentBB[I] = last.src
    /\ \A I \in Range(InstList[last.B]) \ Range(last.run) : ParentBB[I] = last.B

\* a run was moved, one instruction stayed behind, one was in the target already
C3_Witness ==
  /\ last.op = "splice" /\ last.src # last.B /\ err = "none"
  /\ last.run # <<>> /\ last.relinked
  /\ InstList[last.src] # <<>>
  /\ Range(InstList[last.B]) \ Range(last.run) # {}

\* C4: a splice of a run within one block B changes no parent, so every moved
\* instruction still has parent B; it makes no store to a parent; the run ends
\* up, in order, right before the position it was spliced to; the instructions
\* outside the run keep their relative order.
C4_SameBlockSplice ==
  [][(last'.op = "splice" /\ last'.src = last'.B /\ err' = "none") =>
       LET B   == last'.B
           run == last'.run
       IN  /\ ParentBB' = ParentBB
           /\ \A I \in Range(run) : ParentBB'[I] = B
           /\ last'.writes = 0
           /\ SelectOut(InstList'[B], Range(run)) = SelectOut(InstList[B], Range(run))
           /\ Len(InstList'[B]) = Len(InstList[B])
           /\ run # <<>> =>
                \E k \in 1..Len(InstList'[B]) :
                  /\ SubSeq(InstList'[B], k, k + Len(run) - 1) = run
                  /\ NodeAt(InstList'[B], k + Len(run)) = last'.where
           /\ \A C \in Blocks \ {B} : InstList'[C] = InstList[C]]_vars

\* a run was relinked inside a block that holds two more instructions
C4_Witness ==
  /\ last.op = "splice" /\ last.src = last.B /\ err = "none"
  /\ last.relinked /\ last.run # <<>>
  /\ Len(InstList[last.B]) >= Len(last.run) + 2

\* C9: after eraseFromParent() or removeFromParent() on a linked instruction I
\* no block's list holds I; an erased I is destroyed and stays out of every
\* list; a removed I is still alive with its fields unchanged; the other
\* instructions keep their order and their parents.
C9_EraseAndRemove ==
  [][/\ (last'.op \in {"eraseFromParent", "removeFromParent"} /\ err' = "none") =>
          LET I == last'.I
          IN  /\ ~LinkedIn(InstList', I)
              /\ fields'[I] = fields[I] /\ mem' = mem /\ addr' = addr
              /\ life'[I] = IF last'.op = "eraseFromParent" THEN "destroyed" ELSE "live"
              /\ \A B \in Blocks : InstList'[B] = SelectOut(InstList[B], {I})
              /\ \A J \in Insts \ {I} :
                    ParentBB'[J] = ParentBB[J] /\ life'[J] = life[J]
     /\ \A J \in Insts : life'[J] = "destroyed" => ~LinkedIn(InstList', J)
     /\ \A J \in Insts : life[J] = "destroyed" => life'[J] = "destroyed"]_vars

\* an instruction was erased from a block that keeps two others
C9_Witness ==
  /\ last.op = "eraseFromParent" /\ err = "none"
  /\ life[last.I] = "destroyed"
  /\ Len(InstList[last.B]) >= 2

\* a call whose precondition does not hold in the state it is made in
ViolatingCall ==
  \/ last'.op = "insert" /\ ParentBB[last'.I] # NullBB
  \/ last'.op = "removeFromParent" /\ ParentBB[last'.I] = NullBB
  \/ last'.op = "getSuccessors" /\ ~isaTermInst(last'.I)

\* C7 as claimed: linking a linked instruction, unlinking an unlinked one and
\* asking a non-terminator for its successors each end in a fatal assertion
\* failure, with no parent changed.
C7_AlwaysFatalAssertion ==
  [][ViolatingCall => (err' = "assert" /\ ParentBB' = ParentBB)]_vars

\* C7 amended: such a call never returns normally; it ends in the assertion
\* failure when assertions are compiled in, and then no parent is changed and
\* no value is returned; with assertions compiled out the behaviour is
\* undefined. A call whose precondition holds does not fail.
C7_FatalWhenAssertsEnabled ==
  [][/\ ViolatingCall =>
          /\ err' \in {"assert", "ub"}
          /\ err' = "assert" => (ParentBB' = ParentBB /\ last'.res = <<>>)
     /\ (~ViolatingCall) => err' = "none"
     /\ err = "none"]_vars

\* the assertion of addNodeToList has ended the process
C7_Witness ==
  /\ err = "assert" /\ last.op = "insert"
  /\ ParentBB[last.I] # NullBB

\* C6 as claimed: once the last instruction of a block is a terminator no
\* instruction is appended after it, so no state shows a block right after an
\* append that put an instruction behind a terminator.
C6_NoAppendAfterTerminator ==
  (last.op = "insert" /\ last.where = NullInst /\ err = "none") =>
    LET n == Len(InstList[last.B])
    IN  n >= 2 => ~isaTermInst(InstList[last.B][n - 1])

\* C5: getSuccessors() on a terminator returns no successor for an unreachable
\* or a return, the one destination of a branch, and the true target followed
\* by the false target of a conditional branch.
C5_SuccessorsByKind ==
  (last.op = "getSuccessors" /\ err = "none") =>
    LET k == fields[last.I].kind
    IN  /\ k \in {"UnreachableInst", "ReturnInst"} => last.res = <<>>
        /\ k = "BranchInst" => (Len(last.res) = 1 /\ last.res = given[last.I])
        /\ k = "CondBranchInst" => (Len(last.res) = 2 /\ last.res = given[last.I])

\* a conditional branch with two different targets was asked for its successors
C5_Witness ==
  /\ last.op = "getSuccessors" /\ err = "none"
  /\ fields[last.I].kind = "CondBranchInst"
  /\ Len(given[last.I]) = 2 /\ given[last.I][1] # given[last.I][2]
  /\ last.res = given[last.I]

\* the successor slots of the branches, as <<instruction, slot>>, that target B
SlotsTo(B) ==
  {<<I, k>> \in Insts \X (1..2) :
     /\ fields[I].kind \in {"BranchInst", "CondBranchInst"}
     /\ k <= Len(DestBBs[I])
     /\ DestBBs[I][k].BB = B}

\* C10: the slots registered on a block B are exactly the successor slots of
\* the branches and conditional branches that target B, each once and each
\* registered with the instruction that owns it; a conditional branch has two
\* slots holding its true and its false target, so one with both targets B
\* has two slots registered on B.
C10_EdgesConsistent ==
  /\ \A B \in Blocks :
       /\ {PredList[B][n].slot : n \in 1..Len(PredList[B])} = SlotsTo(B)
       /\ Len(PredList[B]) = Cardinality(SlotsTo(B))
       /\ \A n \in 1..Len(PredList[B]) : PredList[B][n].user = PredList[B][n].slot[1]
  /\ \A I \in Insts :
       fields[I].kind = "CondBranchInst" =>
         /\ Targets(DestBBs[I]) = given[I]
         /\ \A k \in 1..2 : DestBBs[I][k].ContainingInst = I

\* a conditional branch whose two targets are the same block
C10_Witness ==
  \E I \in Insts, B \in Blocks :
    /\ fields[I].kind = "CondBranchInst" /\ given[I] = <<B, B>>
    /\ {<<I, 1>>, <<I, 2>>} \subseteq SlotsTo(B)
    /\ Cardinality({n \in 1..Len(PredList[B]) : PredList[B][n].user = I}) = 2
    /\ last.op = "getSuccessors" /\ last.I = I /\ last.res = <<B, B>>

\* C8: a tail-allocated instruction stores the length of the list it was
\* created from, and its trailing elements read back as that list, in every
\* state, whatever was allocated from the arena afterwards.
C8_TrailingRoundTrip ==
  \A I \in Insts :
    fields[I].kind \in TailKinds =>
      /\ fields[I].NumArgs = Len(given[I])
      /\ getArgs(I) = given[I]

\* an instruction created from two elements, with a later record behind it
C8_Witness ==
  \E I \in Insts, J \in Insts :
    /\ fields[I].kind = "SpecializeInst" /\ given[I] = <<"a", "b">>
    /\ fields[J].kind \in TailKinds /\ addr[J] > addr[I]

====
